---- MODULE Spec2Model ----
(***************************************************************************)
(* brewtils/log.py: loading, templating and applying a logging             *)
(* configuration.                                                          *)
(*                                                                         *)
(* Text is modelled character by character: a Python str is a sequence of  *)
(* one-character strings, so that json.dumps, string.Template's            *)
(* safe_substitute and json.loads are computed the way the libraries       *)
(* compute them.  Handler filenames are such character sequences; the      *)
(* other leaves of a configuration (names, classes, levels) are atoms that *)
(* contain no "$", no quote and no backslash.                              *)
(***************************************************************************)
EXTENDS Integers, Sequences, FiniteSets, TLC

(***************************************************************************)
(* Bounds of the model.                                                    *)
(***************************************************************************)
\* the number of pieces a filename of SpecTemplate is put together from
MaxPieces == 3

(***************************************************************************)
(* Characters.                                                             *)
(***************************************************************************)
QUOTE == "\""
BACKSLASH == "\\"
DOLLAR == "$"
SLASH == "/"

LowerLetters ==
  {"a","b","c","d","e","f","g","h","i","j","k","l","m",
   "n","o","p","q","r","s","t","u","v","w","x","y","z"}
UpperLetters ==
  {"A","B","C","D","E","F","G","H","I","J","K","L","M",
   "N","O","P","Q","R","S","T","U","V","W","X","Y","Z"}
Digits == {"0","1","2","3","4","5","6","7","8","9"}
HexDigits == Digits \cup {"a","b","c","d","e","f","A","B","C","D","E","F"}
ControlChars == {"\n", "\t", "\r", "\f"}

\* string.Template.idpattern, r'(?a:[_a-z][_a-z0-9]*)' under re.IGNORECASE
IdStart == {"_"} \cup LowerLetters \cup UpperLetters
IdChar == IdStart \cup Digits

\* The four keyword names of safe_substitute, as text.
NAMESPACE == <<"n","a","m","e","s","p","a","c","e">>
SYSTEM_NAME == <<"s","y","s","t","e","m","_","n","a","m","e">>
SYSTEM_VERSION == <<"s","y","s","t","e","m","_","v","e","r","s","i","o","n">>
INSTANCE_NAME == <<"i","n","s","t","a","n","c","e","_","n","a","m","e">>
TemplateNames == {NAMESPACE, SYSTEM_NAME, SYSTEM_VERSION, INSTANCE_NAME}

\* Python's None (a one-element sequence that is the text of no str, so that
\* it compares with texts), and str(None)
None == <<"None">>
NoneText == <<"N","o","n","e">>

\* str(value), as safe_substitute applies it to a mapping value
Str(v) == IF v = None THEN NoneText ELSE v

(***************************************************************************)
(* json.dumps of a str: quotes around the escaped characters.              *)
(***************************************************************************)
EscapeChar(c) ==
  IF c = QUOTE THEN <<BACKSLASH, QUOTE>>
  ELSE IF c = BACKSLASH THEN <<BACKSLASH, BACKSLASH>>
  ELSE IF c = "\n" THEN <<BACKSLASH, "n">>
  ELSE IF c = "\t" THEN <<BACKSLASH, "t">>
  ELSE IF c = "\r" THEN <<BACKSLASH, "r">>
  ELSE IF c = "\f" THEN <<BACKSLASH, "f">>
  ELSE <<c>>

RECURSIVE EscapeFrom(_, _)
EscapeFrom(s, i) ==
  IF i > Len(s) THEN <<>> ELSE EscapeChar(s[i]) \o EscapeFrom(s, i + 1)

JsonDumpsStr(s) == <<QUOTE>> \o EscapeFrom(s, 1) \o <<QUOTE>>

(***************************************************************************)
(* string.Template(text).safe_substitute with keywords kws.  The pattern   *)
(* is                                                                      *)
(*   \$(?: (\$) | (id) | {(id)} | () )                                     *)
(* tried in this order at every "$", with a greedy identifier.             *)
(***************************************************************************)
RECURSIVE IdEnd(_, _)
\* index of the last character of the identifier that starts at text[i]
IdEnd(text, i) ==
  IF i + 1 <= Len(text) /\ text[i + 1] \in IdChar THEN IdEnd(text, i + 1) ELSE i

\* a convert() that blanks a placeholder it has no value for
Convert_blank(kws, named, matched) ==
  IF named \in DOMAIN kws THEN Str(kws[named]) ELSE <<>>

\* convert() of safe_substitute for a named or braced match
Convert(kws, named, matched) ==
  IF named \in DOMAIN kws THEN Str(kws[named]) ELSE matched

RECURSIVE SubstituteFrom(_, _, _)
SubstituteFrom(text, kws, i) ==
  IF i > Len(text) THEN <<>>
  ELSE IF text[i] # DOLLAR THEN <<text[i]>> \o SubstituteFrom(text, kws, i + 1)
  ELSE IF i + 1 <= Len(text) /\ text[i + 1] = DOLLAR
    THEN <<DOLLAR>> \o SubstituteFrom(text, kws, i + 2)
  ELSE IF i + 1 <= Len(text) /\ text[i + 1] \in IdStart
    THEN LET j == IdEnd(text, i + 1)
         IN  Convert(kws, SubSeq(text, i + 1, j), SubSeq(text, i, j))
               \o SubstituteFrom(text, kws, j + 1)
  ELSE IF /\ i + 2 <= Len(text)
          /\ text[i + 1] = "{"
          /\ text[i + 2] \in IdStart
          /\ IdEnd(text, i + 2) + 1 <= Len(text)
          /\ text[IdEnd(text, i + 2) + 1] = "}"
    THEN LET j == IdEnd(text, i + 2)
         IN  Convert(kws, SubSeq(text, i + 2, j), SubSeq(text, i, j + 1))
               \o SubstituteFrom(text, kws, j + 2)
  ELSE <<DOLLAR>> \o SubstituteFrom(text, kws, i + 1)

SafeSubstitute(text, kws) == SubstituteFrom(text, kws, 1)

(***************************************************************************)
(* json.loads of the text of one string token.  A token that does not end  *)
(* at its closing quote, or holds a bad escape or a raw control character, *)
(* makes the document unparsable: the texts substituted in hold none of    *)
(* the characters that continue a JSON document after a string.           *)
(***************************************************************************)
\* the exception of json.loads, a value that is the text of no str
JSONDecodeError == <<"JSONDecodeError">>

\* the character a two-character escape stands for, the empty string when
\* the escape is invalid
Unescape(c) ==
  IF c = QUOTE THEN QUOTE
  ELSE IF c = BACKSLASH THEN BACKSLASH
  ELSE IF c = SLASH THEN SLASH
  ELSE IF c = "n" THEN "\n"
  ELSE IF c = "t" THEN "\t"
  ELSE IF c = "r" THEN "\r"
  ELSE IF c = "f" THEN "\f"
  ELSE IF c = "b" THEN "\\b"
  ELSE ""

RECURSIVE DecodeFrom(_, _)
\* the characters of the token from text[i] on, or JSONDecodeError
DecodeFrom(text, i) ==
  IF i > Len(text) THEN JSONDecodeError
  ELSE IF text[i] = QUOTE THEN (IF i = Len(text) THEN <<>> ELSE JSONDecodeError)
  ELSE IF text[i] \in ControlChars THEN JSONDecodeError
  ELSE IF text[i] = BACKSLASH THEN
    IF i + 1 > Len(text) THEN JSONDecodeError
    ELSE IF text[i + 1] = "u" THEN
      IF /\ i + 5 <= Len(text)
         /\ \A k \in 2..5 : text[i + k] \in HexDigits
      THEN LET rest == DecodeFrom(text, i + 6)
           IN  IF rest = JSONDecodeError THEN JSONDecodeError
               ELSE <<"\\u">> \o rest
      ELSE JSONDecodeError
    ELSE IF Unescape(text[i + 1]) = "" THEN JSONDecodeError
    ELSE LET rest == DecodeFrom(text, i + 2)
         IN  IF rest = JSONDecodeError THEN JSONDecodeError
             ELSE <<Unescape(text[i + 1])>> \o rest
  ELSE LET rest == DecodeFrom(text, i + 1)
       IN  IF rest = JSONDecodeError THEN JSONDecodeError
           ELSE <<text[i]>> \o rest

JsonLoadsStr(text) ==
  IF Len(text) = 0 \/ text[1] # QUOTE THEN JSONDecodeError
  ELSE DecodeFrom(text, 2)

\* one string leaf through lines 130-136
TemplatedStr(s, kws) == JsonLoadsStr(SafeSubstitute(JsonDumpsStr(s), kws))


(***************************************************************************)
(* Paths.  A directory is the sequence of its components from the root, a  *)
(* component is a text.                                                    *)
(***************************************************************************)
\* os.getcwd() of the process
Cwd == << <<"w">> >>

RECURSIVE SplitFrom(_, _, _)
\* the components of a path text, text.split("/")
SplitFrom(text, i, cur) ==
  IF i > Len(text) THEN <<cur>>
  ELSE IF text[i] = SLASH THEN <<cur>> \o SplitFrom(text, i + 1, <<>>)
  ELSE SplitFrom(text, i + 1, Append(cur, text[i]))

RECURSIVE NormFrom(_, _, _)
\* os.path.normpath of an absolute path: empty and "." components dropped,
\* ".." steps back and stays at the root
NormFrom(comps, i, acc) ==
  IF i > Len(comps) THEN acc
  ELSE IF comps[i] = <<>> \/ comps[i] = <<".">> THEN NormFrom(comps, i + 1, acc)
  ELSE IF comps[i] = <<".", ".">>
    THEN NormFrom(comps, i + 1,
                  IF Len(acc) = 0 THEN acc ELSE SubSeq(acc, 1, Len(acc) - 1))
  ELSE NormFrom(comps, i + 1, Append(acc, comps[i]))

\* os.path.abspath(filename)
AbsPath(filename) ==
  IF Len(filename) > 0 /\ filename[1] = SLASH
  THEN NormFrom(SplitFrom(filename, 1, <<>>), 1, <<>>)
  ELSE NormFrom(SplitFrom(filename, 1, <<>>), 1, Cwd)

\* os.path.dirname of an absolute normalised path
Dirname(path) ==
  IF Len(path) = 0 THEN path ELSE SubSeq(path, 1, Len(path) - 1)

\* line 141: os.path.dirname(os.path.abspath(handler["filename"]))
DirNameOf(handler) == Dirname(AbsPath(handler.filename))

\* the directories from the root down to d
Prefixes(d) == {SubSeq(d, 1, k) : k \in 0..Len(d)}

\* the directory the next mkdir of os.makedirs(d) creates
NextMkdir(d, existing) ==
  CHOOSE p \in Prefixes(d) \ existing :
    \A q \in Prefixes(d) \ existing : Len(p) <= Len(q)

(***************************************************************************)
(* Configurations.  A dict is a function from its keys.                    *)
(***************************************************************************)
EmptyDict == [k \in {} |-> {}]

DEFAULT_FORMAT == "%(asctime)s - %(name)s - %(levelname)s - %(message)s"

\* the literals of lines 40-44, 50 and 58-64
BuiltinLoggers ==
  ("pika" :> [level |-> "ERROR"])
    @@ ("requests.packages.urllib3.connectionpool" :> [level |-> "WARN"])
    @@ ("yapconf" :> [level |-> "WARN"])
BuiltinFormatters == ("default" :> [format |-> DEFAULT_FORMAT])
BuiltinHandlers ==
  ("default" :> [class |-> "logging.StreamHandler",
                 formatter |-> "default",
                 stream |-> "ext://sys.stdout"])

\* a value a variable holds while it holds no configuration
NoConfig == [version |-> 0]

MakeConfig(formatters, handlers, loggers, root) ==
  [version |-> 1, disable_existing_loggers |-> FALSE,
   formatters |-> formatters, handlers |-> handlers,
   loggers |-> loggers, root |-> root]

\* keyword arguments of configure_logging, by template name
Kws(namespace, system_name, system_version, instance_name) ==
  (NAMESPACE :> namespace) @@ (SYSTEM_NAME :> system_name)
    @@ (SYSTEM_VERSION :> system_version) @@ (INSTANCE_NAME :> instance_name)

\* lines 130-136 on one handler: its filename goes through the text
TemplatedHandler(handler, kws) ==
  IF "filename" \in DOMAIN handler
  THEN [handler EXCEPT !.filename = TemplatedStr(handler.filename, kws)]
  ELSE handler

\* lines 130-136: does json.loads of the substituted text raise
LoadsRaises(raw_config, kws) ==
  \E h \in DOMAIN raw_config.handlers :
    /\ "filename" \in DOMAIN raw_config.handlers[h]
    /\ TemplatedStr(raw_config.handlers[h].filename, kws) = JSONDecodeError

\* lines 130-136: the configuration json.loads returns
Templated(raw_config, kws) ==
  [raw_config EXCEPT !.handlers =
     [h \in DOMAIN raw_config.handlers |->
        TemplatedHandler(raw_config.handlers[h], kws)]]

\* a guard whose existence test is negated
NeedsMakedirs_inverted(handler, existing) ==
  "filename" \in DOMAIN handler /\ DirNameOf(handler) \in existing

\* a guard that has no existence test
NeedsMakedirs_nocheck(handler, existing) == "filename" \in DOMAIN handler

\* lines 140-142: os.path.exists as the call sees it and the guard of makedirs
HasFilename(handler) == "filename" \in DOMAIN handler

NeedsMakedirs(handler, existing) ==
  HasFilename(handler) /\ DirNameOf(handler) \notin existing

\* a loop that leaves its last handler out
LoopDone_early(todo) == Cardinality(todo) <= 1

\* line 139: the for loop is over once no handler is left
LoopDone(todo) == todo = {}

(***************************************************************************)
(* The logging subsystem: logging.config.dictConfig.  Its state is the     *)
(* active formatters, handlers, loggers and root.                          *)
(***************************************************************************)
ActiveOf(config) ==
  [formatters |-> config.formatters, handlers |-> config.handlers,
   loggers |-> config.loggers, root |-> config.root]

\* the state of the logging module before any configuration
InitialActive ==
  [formatters |-> EmptyDict, handlers |-> EmptyDict, loggers |-> EmptyDict,
   root |-> [level |-> "WARNING", handlers |-> {}]]

\* dictConfig rejects a root that names a handler the configuration lacks
Rejected(config) == ~ (config.root.handlers \subseteq DOMAIN config.handlers)

\* the states a rejected configuration can leave behind: everything up to
\* the root is installed, the root has its level and the handlers that were
\* attached before the missing one was met
PartialStates(config) ==
  {[ActiveOf(config) EXCEPT !.root.handlers = hs] :
     hs \in SUBSET (config.root.handlers \cap DOMAIN config.handlers)}


(***************************************************************************)
(* State.                                                                  *)
(***************************************************************************)
Threads == {"t1", "t2"}

VARIABLES
  DEFAULT_FORMATTERS,  \* the module-level dict of line 50
  DEFAULT_HANDLERS,    \* the module-level dict of lines 58-64
  DEFAULT_LOGGERS,     \* the module-level dict of lines 40-44
  active,              \* the configuration the logging subsystem runs with
  dirs,                \* the directories that exist
  calls,               \* per thread: the call it is in and its locals
  warned,              \* per thread: the warnings its current call emitted
  held,                \* per thread: the configuration its last call returned
  last_apply           \* history: the configuration of the last dictConfig
                       \* that completed, and whether one has failed since

vars == <<DEFAULT_FORMATTERS, DEFAULT_HANDLERS, DEFAULT_LOGGERS, active, dirs,
          calls, warned, held, last_apply>>

modvars == <<DEFAULT_FORMATTERS, DEFAULT_HANDLERS, DEFAULT_LOGGERS>>

Idle ==
  [fn |-> "none", pc |-> "idle", raw_config |-> NoConfig,
   kws |-> Kws(None, None, None, None), logging_config |-> NoConfig,
   todo |-> {}, cur |-> "", dir_name |-> <<>>, exists |-> FALSE,
   error |-> ""]

\* a thread holds nothing, or a configuration some of whose dicts are the
\* module-level dicts themselves (alias) and not copies
NoHeld == [config |-> NoConfig, alias |-> {}]

\* the configuration a holder sees through its references
Deref(h) ==
  [h.config EXCEPT
     !.formatters = IF "formatters" \in h.alias THEN DEFAULT_FORMATTERS ELSE @,
     !.handlers = IF "handlers" \in h.alias THEN DEFAULT_HANDLERS ELSE @,
     !.loggers = IF "loggers" \in h.alias THEN DEFAULT_LOGGERS ELSE @]

\* lines 67-73: the "loggers" entry is the DEFAULT_LOGGERS object itself
DEFAULT_PLUGIN_LOGGING_TEMPLATE ==
  [version |-> 1, disable_existing_loggers |-> FALSE,
   formatters |-> EmptyDict, handlers |-> EmptyDict,
   loggers |-> DEFAULT_LOGGERS]

Init ==
  /\ DEFAULT_FORMATTERS = BuiltinFormatters
  /\ DEFAULT_HANDLERS = BuiltinHandlers
  /\ DEFAULT_LOGGERS = BuiltinLoggers
  /\ active = InitialActive
  /\ dirs = Prefixes(Cwd)
  /\ calls = [t \in Threads |-> Idle]
  /\ warned = [t \in Threads |-> <<>>]
  /\ held = [t \in Threads |-> NoHeld]
  /\ last_apply = [config |-> NoConfig, failed_since |-> FALSE]

(***************************************************************************)
(* default_config, lines 76-85.  The returned dict refers to the three     *)
(* module-level dicts; nothing is copied.                                  *)
(***************************************************************************)
Levels == {"INFO", "DEBUG"}

default_config(level) ==
  [config |-> MakeConfig(EmptyDict, EmptyDict, EmptyDict,
                         [level |-> level, handlers |-> {"default"}]),
   alias |-> {"formatters", "handlers", "loggers"}]

DefaultConfig(t, level) ==
  /\ calls[t].pc = "idle"
  /\ held' = [held EXCEPT ![t] = default_config(level)]
  /\ UNCHANGED <<modvars, active, dirs, calls, warned, last_apply>>

(***************************************************************************)
(* convert_logging_config, lines 163-191.  A remote configuration has a    *)
(* level, handlers and formatters; an empty dict stands for every falsy    *)
(* value.  copy.deepcopy yields the value the module-level dict has now.   *)
(***************************************************************************)
Truthy(d) == DOMAIN d # {}

convert_logging_config(logging_config) ==
  LET config_to_return == DEFAULT_PLUGIN_LOGGING_TEMPLATE
      handlers == IF Truthy(logging_config.handlers)
                  THEN logging_config.handlers ELSE DEFAULT_HANDLERS
      formatters == IF Truthy(logging_config.formatters)
                    THEN logging_config.formatters ELSE DEFAULT_FORMATTERS
  IN  [version |-> config_to_return.version,
       disable_existing_loggers |-> config_to_return.disable_existing_loggers,
       formatters |-> formatters,
       handlers |-> handlers,
       loggers |-> config_to_return.loggers,
       root |-> [level |-> logging_config.level,
                 handlers |-> DOMAIN handlers]]

RemoteStdout ==
  [class |-> "logging.StreamHandler", formatter |-> "simple",
   stream |-> "ext://sys.stdout"]
RemoteLogstash ==
  [class |-> "logstash_async.handler.AsynchronousLogstashHandler",
   formatter |-> "simple"]
RemoteSimple == [format |-> "%(message)s"]

\* what the remote client can return
RemoteConfigs ==
  {[level |-> "INFO", handlers |-> EmptyDict, formatters |-> EmptyDict],
   [level |-> "DEBUG",
    handlers |-> ("stdout" :> RemoteStdout) @@ ("logstash" :> RemoteLogstash),
    formatters |-> ("simple" :> RemoteSimple)],
   [level |-> "WARN", handlers |-> EmptyDict,
    formatters |-> ("simple" :> RemoteSimple)],
   [level |-> "ERROR", handlers |-> ("stdout" :> RemoteStdout),
    formatters |-> EmptyDict]}

ConvertLoggingConfig(t, remote) ==
  /\ calls[t].pc = "idle"
  /\ held' = [held EXCEPT ![t] =
                [config |-> convert_logging_config(remote), alias |-> {}]]
  /\ UNCHANGED <<modvars, active, dirs, calls, warned, last_apply>>

\* get_logging_config, lines 148-160: the client returns a configuration
\* or raises, and the call returns what the conversion returns
GetLoggingConfig(t) ==
  /\ calls[t].pc = "idle"
  /\ \/ \E remote \in RemoteConfigs :
          held' = [held EXCEPT ![t] =
                     [config |-> convert_logging_config(remote),
                      alias |-> {}]]
     \/ held' = [held EXCEPT ![t] = NoHeld]
  /\ UNCHANGED <<modvars, active, dirs, calls, warned, last_apply>>

(***************************************************************************)
(* The caller of default_config, convert_logging_config or                 *)
(* get_logging_config changes a dict of the configuration it was handed:   *)
(* d[key] = value, or del d[key].                                          *)
(***************************************************************************)
CallerEntries ==
  [handlers |-> ("file" :> [class |-> "logging.FileHandler",
                            filename |-> <<"x">>]),
   formatters |-> ("brief" :> RemoteSimple),
   loggers |-> ("pika" :> [level |-> "DEBUG"])]

SetItems(d, new) == [k \in DOMAIN d \cup DOMAIN new |->
                       IF k \in DOMAIN new THEN new[k] ELSE d[k]]
DelItem(d, key) == [k \in DOMAIN d \ {key} |-> d[k]]

Mutated(d, field, del) ==
  IF del = "" THEN SetItems(d, CallerEntries[field]) ELSE DelItem(d, del)

CallerMutates(t, field, del) ==
  /\ calls[t].pc = "idle"
  /\ held[t] # NoHeld
  /\ del = "" \/ del \in DOMAIN Deref(held[t])[field]
  /\ IF field \in held[t].alias
     THEN /\ DEFAULT_FORMATTERS' =
               IF field = "formatters"
               THEN Mutated(DEFAULT_FORMATTERS, field, del)
               ELSE DEFAULT_FORMATTERS
          /\ DEFAULT_HANDLERS' =
               IF field = "handlers"
               THEN Mutated(DEFAULT_HANDLERS, field, del)
               ELSE DEFAULT_HANDLERS
          /\ DEFAULT_LOGGERS' =
               IF field = "loggers"
               THEN Mutated(DEFAULT_LOGGERS, field, del)
               ELSE DEFAULT_LOGGERS
          /\ UNCHANGED held
     ELSE /\ held' = [held EXCEPT ![t].config[field] = Mutated(@, field, del)]
          /\ UNCHANGED modvars
  /\ UNCHANGED <<active, dirs, calls, warned, last_apply>>


(***************************************************************************)
(* configure_logging, lines 88-145.                                        *)
(***************************************************************************)
FileHandler(filename) ==
  [class |-> "logging.FileHandler", filename |-> filename]

\* the call is entered with its arguments
ConfigureCall(t, raw_config, kws) ==
  /\ calls[t].pc = "idle"
  /\ calls' = [calls EXCEPT ![t] =
                 [Idle EXCEPT !.fn = "configure_logging", !.pc = "template",
                              !.raw_config = raw_config, !.kws = kws]]
  /\ warned' = [warned EXCEPT ![t] = <<>>]
  /\ UNCHANGED <<modvars, active, dirs, held, last_apply>>

\* lines 130-136: dumps, safe_substitute, loads
ConfigureTemplate(t) ==
  /\ calls[t].pc = "template"
  /\ IF LoadsRaises(calls[t].raw_config, calls[t].kws)
     THEN calls' = [calls EXCEPT ![t].pc = "raised",
                                 ![t].error = "JSONDecodeError"]
     ELSE LET logging_config == Templated(calls[t].raw_config, calls[t].kws)
          IN  calls' = [calls EXCEPT
                          ![t].logging_config = logging_config,
                          ![t].todo = DOMAIN logging_config.handlers,
                          ![t].pc = IF LoopDone(DOMAIN logging_config.handlers)
                                    THEN "apply" ELSE "loop"]
  /\ UNCHANGED <<modvars, active, dirs, warned, held, last_apply>>

\* lines 139-142: the next handler of the loop, in the order of the dict,
\* which is the caller's and can be any
ConfigureExists(t) ==
  /\ calls[t].pc = "loop"
  /\ \E h \in calls[t].todo :
       LET handler == calls[t].logging_config.handlers[h]
           rest == calls[t].todo \ {h}
       IN  IF NeedsMakedirs(handler, dirs)
           THEN calls' = [calls EXCEPT
                            ![t].pc = "makedirs", ![t].cur = h,
                            ![t].dir_name = DirNameOf(handler),
                            ![t].exists = DirNameOf(handler) \in dirs]
           ELSE calls' = [calls EXCEPT
                            ![t].todo = rest,
                            ![t].pc = IF LoopDone(rest) THEN "apply"
                                      ELSE "loop"]
  /\ UNCHANGED <<modvars, active, dirs, warned, held, last_apply>>

\* line 143: os.makedirs, one mkdir a step; the mkdir of dir_name itself
\* raises when the directory is there
ConfigureMakedirs(t) ==
  /\ calls[t].pc = "makedirs"
  /\ IF calls[t].dir_name \in dirs
     THEN /\ calls' = [calls EXCEPT ![t].pc = "raised",
                                    ![t].error = "FileExistsError"]
          /\ UNCHANGED dirs
     ELSE LET made == NextMkdir(calls[t].dir_name, dirs)
              rest == calls[t].todo \ {calls[t].cur}
          IN  /\ dirs' = dirs \cup {made}
              /\ calls' = IF made = calls[t].dir_name
                          THEN [calls EXCEPT
                                  ![t].todo = rest,
                                  ![t].pc = IF LoopDone(rest) THEN "apply"
                                            ELSE "loop"]
                          ELSE calls
  /\ UNCHANGED <<modvars, active, warned, held, last_apply>>

\* logging.config.dictConfig(config) by thread t, lines 145 and 228
DictConfig(t, config, expected) ==
  IF Rejected(config)
  THEN /\ active' \in PartialStates(config)
       /\ calls' = [calls EXCEPT ![t].pc = "raised", ![t].error = "ValueError"]
       /\ last_apply' = [last_apply EXCEPT !.failed_since = TRUE]
  ELSE /\ active' = ActiveOf(config)
       /\ calls' = [calls EXCEPT ![t].pc = "done"]
       /\ last_apply' = [config |-> expected, failed_since |-> FALSE]

\* an apply step that hands over raw_config, not what json.loads returned
ConfigureApply_raw(t) ==
  /\ calls[t].pc = "apply"
  /\ calls[t].fn = "configure_logging"
  /\ DictConfig(t, calls[t].raw_config,
                Templated(calls[t].raw_config, calls[t].kws))
  /\ UNCHANGED <<modvars, dirs, warned, held>>

\* line 145
ConfigureApply(t) ==
  /\ calls[t].pc = "apply"
  /\ calls[t].fn = "configure_logging"
  /\ DictConfig(t, calls[t].logging_config,
                Templated(calls[t].raw_config, calls[t].kws))
  /\ UNCHANGED <<modvars, dirs, warned, held>>

(***************************************************************************)
(* setup_logger, lines 194-228, and get_python_logging_config, lines       *)
(* 231-266.                                                                *)
(***************************************************************************)
Warning(instead) == [category |-> "DeprecationWarning", instead |-> instead]

SetupLoggerCall(t) ==
  /\ calls[t].pc = "idle"
  /\ calls' = [calls EXCEPT ![t] =
                 [Idle EXCEPT !.fn = "setup_logger", !.pc = "sl_warn"]]
  /\ warned' = [warned EXCEPT ![t] = <<>>]
  /\ UNCHANGED <<modvars, active, dirs, held, last_apply>>

\* lines 213-218
SetupLoggerWarn(t) ==
  /\ calls[t].pc = "sl_warn"
  /\ warned' = [warned EXCEPT ![t] = Append(@, Warning("configure_logging"))]
  /\ calls' = [calls EXCEPT ![t].pc = "gp_warn"]
  /\ UNCHANGED <<modvars, active, dirs, held, last_apply>>

GetPythonLoggingConfigCall(t) ==
  /\ calls[t].pc = "idle"
  /\ calls' = [calls EXCEPT ![t] =
                 [Idle EXCEPT !.fn = "get_python_logging_config",
                              !.pc = "gp_warn"]]
  /\ warned' = [warned EXCEPT ![t] = <<>>]
  /\ UNCHANGED <<modvars, active, dirs, held, last_apply>>

\* lines 249-254
GetPythonLoggingConfigWarn(t) ==
  /\ calls[t].pc = "gp_warn"
  /\ warned' = [warned EXCEPT ![t] = Append(@, Warning("get_logging_config"))]
  /\ calls' = [calls EXCEPT ![t].pc = "gp_get"]
  /\ UNCHANGED <<modvars, active, dirs, held, last_apply>>

\* lines 256-266: the client returns a configuration, which is converted
\* and returned to setup_logger or to the caller, or the client raises
GetPythonLoggingConfigGet(t) ==
  /\ calls[t].pc = "gp_get"
  /\ \/ \E remote \in RemoteConfigs :
          /\ calls' = [calls EXCEPT
                         ![t].logging_config = convert_logging_config(remote),
                         ![t].pc = IF calls[t].fn = "setup_logger"
                                   THEN "apply" ELSE "done"]
          /\ held' = IF calls[t].fn = "setup_logger" THEN held
                     ELSE [held EXCEPT ![t] =
                             [config |-> convert_logging_config(remote),
                              alias |-> {}]]
     \/ /\ calls' = [calls EXCEPT ![t].pc = "raised",
                                  ![t].error = "ConnectionError"]
        /\ UNCHANGED held
  /\ UNCHANGED <<modvars, active, dirs, warned, last_apply>>

\* line 228
SetupLoggerApply(t) ==
  /\ calls[t].pc = "apply"
  /\ calls[t].fn = "setup_logger"
  /\ DictConfig(t, calls[t].logging_config, calls[t].logging_config)
  /\ UNCHANGED <<modvars, dirs, warned, held>>

\* the call returns or its exception reaches the caller
Return(t) ==
  /\ calls[t].pc \in {"done", "raised"}
  /\ calls' = [calls EXCEPT ![t] = Idle]
  /\ UNCHANGED <<modvars, active, dirs, warned, held, last_apply>>

(***************************************************************************)
(* Specification of concurrent callers of configure_logging and            *)
(* setup_logger.                                                           *)
(***************************************************************************)
StreamConfig(root_handlers) ==
  MakeConfig(BuiltinFormatters, BuiltinHandlers, BuiltinLoggers,
             [level |-> "INFO", handlers |-> root_handlers])

FileConfig(files, level) ==
  MakeConfig(BuiltinFormatters, files @@ BuiltinHandlers, EmptyDict,
             [level |-> level, handlers |-> DOMAIN files \cup {"default"}])

\* the filenames are "$system_name/x", "d/e/x" and "d/y"; the last
\* configuration has a root that names a handler it does not define
RawConfigs ==
  {FileConfig(("f" :> FileHandler(<<DOLLAR>> \o SYSTEM_NAME \o <<SLASH, "x">>))
                @@ ("g" :> FileHandler(<<"d", SLASH, "e", SLASH, "x">>)),
              "INFO"),
   FileConfig(("f" :> FileHandler(<<"d", SLASH, "y">>)), "DEBUG"),
   StreamConfig({"default"}),
   StreamConfig({"default", "file"})}

CallKws ==
  {Kws(None, v, None, None) : v \in {None, <<"d">>, <<"a", QUOTE>>}}

Next ==
  \E t \in Threads :
    \/ \E raw_config \in RawConfigs, kws \in CallKws :
         ConfigureCall(t, raw_config, kws)
    \/ ConfigureTemplate(t)
    \/ ConfigureExists(t)
    \/ ConfigureMakedirs(t)
    \/ ConfigureApply(t)
    \/ SetupLoggerCall(t)
    \/ SetupLoggerWarn(t)
    \/ GetPythonLoggingConfigWarn(t)
    \/ GetPythonLoggingConfigGet(t)
    \/ SetupLoggerApply(t)
    \/ Return(t)

Spec == Init /\ [][Next]_vars


(***************************************************************************)
(* Specification of one configure_logging call over filenames put together *)
(* from pieces of template syntax, and over keyword values with quotes and *)
(* backslashes.                                                            *)
(***************************************************************************)
Pieces ==
  {<<DOLLAR>>, <<DOLLAR, "{">>, <<"}">>, <<"x">>, <<SLASH>>, <<QUOTE>>,
   NAMESPACE, SYSTEM_NAME, SYSTEM_VERSION, INSTANCE_NAME}

RECURSIVE Flatten(_)
Flatten(ps) == IF Len(ps) = 0 THEN <<>> ELSE Head(ps) \o Flatten(Tail(ps))

TemplateFilenames ==
  {Flatten(ps) : ps \in UNION {[1..n -> Pieces] : n \in 0..MaxPieces}}

TemplateKws ==
  {Kws(a, b, c, d) : a \in {None, <<"n">>}, b \in {None, <<"v">>},
                     c \in {None, <<"1">>}, d \in {None, <<"i">>}}
    \cup {Kws(None, v, None, None) :
            v \in {<<>>, <<"a", QUOTE, "b">>, <<BACKSLASH>>,
                   <<BACKSLASH, BACKSLASH>>, <<DOLLAR, "x">>}}
    \cup {Kws(<<>>, None, <<>>, <<>>)}

TemplateConfig(filename) ==
  MakeConfig(BuiltinFormatters,
             ("file" :> FileHandler(filename)) @@ BuiltinHandlers,
             BuiltinLoggers,
             [level |-> "INFO", handlers |-> {"default", "file"}])

InitTemplate ==
  /\ DEFAULT_FORMATTERS = BuiltinFormatters
  /\ DEFAULT_HANDLERS = BuiltinHandlers
  /\ DEFAULT_LOGGERS = BuiltinLoggers
  /\ active = InitialActive
  /\ dirs = Prefixes(Cwd)
  /\ calls \in
       {[t \in Threads |->
           IF t = "t1"
           THEN [Idle EXCEPT !.fn = "configure_logging", !.pc = "template",
                             !.raw_config = TemplateConfig(filename),
                             !.kws = kws]
           ELSE Idle] : filename \in TemplateFilenames, kws \in TemplateKws}
  /\ warned = [t \in Threads |-> <<>>]
  /\ held = [t \in Threads |-> NoHeld]
  /\ last_apply = [config |-> NoConfig, failed_since |-> FALSE]

NextTemplate ==
  \/ ConfigureTemplate("t1")
  \/ ConfigureExists("t1")
  \/ ConfigureMakedirs("t1")
  \/ ConfigureApply("t1")

SpecTemplate == InitTemplate /\ [][NextTemplate]_vars

(***************************************************************************)
(* Specification of the callers of default_config, convert_logging_config, *)
(* get_logging_config and get_python_logging_config.                       *)
(***************************************************************************)
NextDefaults ==
  \E t \in {"t1"} :
    \/ \E level \in Levels : DefaultConfig(t, level)
    \/ \E remote \in RemoteConfigs : ConvertLoggingConfig(t, remote)
    \/ GetLoggingConfig(t)
    \/ GetPythonLoggingConfigCall(t)
    \/ GetPythonLoggingConfigWarn(t)
    \/ GetPythonLoggingConfigGet(t)
    \/ Return(t)
    \/ \E field \in {"formatters", "handlers", "loggers"},
          del \in {"", "default"} : CallerMutates(t, field, del)

SpecDefaults == Init /\ [][NextDefaults]_vars


(***************************************************************************)
(* Properties.                                                             *)
(***************************************************************************)
\* the call of thread t is past lines 130-136
PastTemplate(c) ==
  /\ c.fn = "configure_logging"
  /\ c.pc \in {"loop", "makedirs", "apply", "done", "raised"}

\* json.loads returned
Loaded(c) == c.logging_config # NoConfig

\* "$name" and "${name}"
Placeholder(name, braced) ==
  IF braced THEN <<DOLLAR, "{">> \o name \o <<"}">> ELSE <<DOLLAR>> \o name

\* texts that can follow a placeholder without joining its name
PlainSuffixes == {<<>>, <<SLASH>>, <<SLASH, "x">>}

Contains(text, sub) ==
  \E i \in 1..(Len(text) - Len(sub) + 1) :
    SubSeq(text, i, i + Len(sub) - 1) = sub

FileHandlers(config) ==
  {h \in DOMAIN config.handlers : HasFilename(config.handlers[h])}

HasRecognized(config) ==
  \E h \in FileHandlers(config), name \in TemplateNames, braced \in BOOLEAN :
    Contains(config.handlers[h].filename, Placeholder(name, braced))

HasEscape(config) ==
  \E h \in FileHandlers(config) :
    Contains(config.handlers[h].filename, <<DOLLAR, DOLLAR>>)

\* C1: when the argument of a template name is a non-empty str, whatever
\* its characters, a filename made of the name's placeholder (plain or
\* braced) and a suffix becomes that str and the suffix in the
\* configuration json.loads returns, and json.loads returns.
C1_AsClaimed ==
  \A t \in Threads :
    PastTemplate(calls[t]) =>
      \A h \in FileHandlers(calls[t].raw_config), name \in TemplateNames,
         braced \in BOOLEAN, post \in PlainSuffixes :
        ( /\ calls[t].raw_config.handlers[h].filename
               = Placeholder(name, braced) \o post
          /\ calls[t].kws[name] # None
          /\ calls[t].kws[name] # <<>> )
        => /\ Loaded(calls[t])
           /\ calls[t].logging_config.handlers[h].filename
                = calls[t].kws[name] \o post

\* C4: when the argument of a template name is None or empty, a filename
\* made of the name's placeholder and a suffix is left as it was written,
\* and json.loads returns.
C4_AsClaimed ==
  \A t \in Threads :
    PastTemplate(calls[t]) =>
      \A h \in FileHandlers(calls[t].raw_config), name \in TemplateNames,
         braced \in BOOLEAN, post \in PlainSuffixes :
        ( /\ calls[t].raw_config.handlers[h].filename
               = Placeholder(name, braced) \o post
          /\ calls[t].kws[name] \in {None, <<>>} )
        => /\ Loaded(calls[t])
           /\ calls[t].logging_config.handlers[h].filename
                = calls[t].raw_config.handlers[h].filename

\* the configuration goes through lines 130-145 as it was passed in
Untouched(c) ==
  /\ Loaded(c)
  /\ c.logging_config = c.raw_config
  /\ c.pc = "done" => active = ActiveOf(c.raw_config)

\* C6 as stated: a configuration that holds none of the four recognized
\* placeholders is handed to the logging subsystem as it was passed in.
C6_AsClaimed ==
  \A t \in Threads :
    PastTemplate(calls[t]) /\ ~ HasRecognized(calls[t].raw_config)
      => Untouched(calls[t])

\* C6 as amended: a configuration that holds none of the four recognized
\* placeholders and no "$$" is handed to the logging subsystem as it was
\* passed in, unrecognized placeholders included, and the call does not
\* raise in lines 130-136.
C6_Amended ==
  \A t \in Threads :
    ( /\ PastTemplate(calls[t])
      /\ ~ HasRecognized(calls[t].raw_config)
      /\ ~ HasEscape(calls[t].raw_config) )
    => Untouched(calls[t])

\* a call with the unrecognized placeholder "$x" in a filename has returned
C6_Witness ==
  \E t \in Threads :
    /\ calls[t].fn = "configure_logging"
    /\ calls[t].pc = "done"
    /\ \E h \in FileHandlers(calls[t].raw_config) :
         Contains(calls[t].raw_config.handlers[h].filename, <<DOLLAR, "x">>)
    /\ ~ HasRecognized(calls[t].raw_config)
    /\ ~ HasEscape(calls[t].raw_config)
    /\ active = ActiveOf(calls[t].raw_config)

\* the directories of the file handlers of a loaded configuration
DirsOf(config, hs) == {DirNameOf(config.handlers[h]) : h \in hs}

C2_DirsExist ==
  \A t \in Threads :
    calls[t].fn = "configure_logging" /\ calls[t].pc = "done"
      => DirsOf(calls[t].logging_config,
                FileHandlers(calls[t].logging_config)) \subseteq dirs

C2_OnlyForFilenames ==
  dirs' # dirs =>
    \E t \in Threads :
      /\ calls[t].pc = "makedirs"
      /\ calls[t].cur \in FileHandlers(calls[t].logging_config)
      /\ (dirs' \ dirs) \subseteq
           Prefixes(DirNameOf(calls[t].logging_config.handlers[calls[t].cur]))

\* C2: when configure_logging has returned, the parent directory of every
\* handler filename of the substituted configuration exists, and a
\* directory is only ever created on the path to the parent directory of
\* a handler that has a filename.
C2_Theorem == [] C2_DirsExist /\ [][C2_OnlyForFilenames]_vars

\* a call has returned that created the directory of a file handler and
\* whose configuration also has a handler without a filename
C2_Witness ==
  \E t \in Threads :
    /\ calls[t].fn = "configure_logging"
    /\ calls[t].pc = "done"
    /\ \E h \in FileHandlers(calls[t].logging_config) :
         DirNameOf(calls[t].logging_config.handlers[h]) \notin Prefixes(Cwd)
    /\ DOMAIN calls[t].logging_config.handlers
         # FileHandlers(calls[t].logging_config)

C7_AsClaimed ==
  \A t \in Threads :
    calls[t].fn = "setup_logger" /\ calls[t].pc \in {"apply", "done"}
      => warned[t] = <<Warning("configure_logging")>>

\* C8: in every state, whatever was done with the configurations returned
\* before, default_config(level) yields the built-in formatter, handler
\* and loggers, version 1, loggers not disabled, and a root of the level
\* with the handler "default".
C8_AsClaimed ==
  \A level \in Levels :
    Deref(default_config(level))
      = MakeConfig(BuiltinFormatters, BuiltinHandlers, BuiltinLoggers,
                   [level |-> level, handlers |-> {"default"}])

\* C5: in every state, convert_logging_config of a remote configuration
\* has the remote handlers when they are non-empty and the built-in
\* handler otherwise, formatters chosen the same way, the remote level,
\* and a root that names exactly the keys of its handlers, "default"
\* alone when the remote handlers are empty.
C5_AsClaimed ==
  \A remote \in RemoteConfigs :
    LET config == convert_logging_config(remote)
    IN  /\ config.handlers = IF Truthy(remote.handlers)
                             THEN remote.handlers ELSE BuiltinHandlers
        /\ config.formatters = IF Truthy(remote.formatters)
                               THEN remote.formatters ELSE BuiltinFormatters
        /\ config.root.level = remote.level
        /\ config.root.handlers = DOMAIN config.handlers
        /\ ~ Truthy(remote.handlers) => config.root.handlers = {"default"}

C9_ApplyAfterDirs ==
  \A t \in Threads :
    calls[t].fn = "configure_logging" /\ calls[t].pc \in {"apply", "done"}
      => /\ Loaded(calls[t])
         /\ calls[t].error = ""
         /\ calls[t].todo = {}
         /\ DirsOf(calls[t].logging_config,
                   FileHandlers(calls[t].logging_config)) \subseteq dirs

C9_FailureLeavesActive ==
  \A t \in Threads :
    ( /\ calls[t].error = ""
      /\ calls'[t].error \in {"JSONDecodeError", "FileExistsError"} )
    => /\ calls[t].pc \in {"template", "makedirs"}
       /\ calls'[t].pc = "raised"
       /\ active' = active

C9_OnlyApplyChangesActive ==
  active' # active =>
    \E t \in Threads :
      calls[t].pc = "apply" /\ calls'[t].pc \in {"done", "raised"}

\* C9: configure_logging comes to its apply step only with the substituted
\* configuration parsed and the directory of every file handler there; the
\* step that raises a serialization or filesystem error leaves the active
\* configuration alone, as does every step but an apply step; and no
\* directory is ever removed.
C9_Theorem ==
  /\ [] C9_ApplyAfterDirs
  /\ [][/\ C9_FailureLeavesActive
        /\ C9_OnlyApplyChangesActive
        /\ dirs \subseteq dirs']_vars

\* a call has raised a filesystem error with the directory of an earlier
\* handler created, and nothing was ever applied
C9_Witness ==
  \E t \in Threads :
    /\ calls[t].fn = "configure_logging"
    /\ calls[t].pc = "raised"
    /\ calls[t].error = "FileExistsError"
    /\ \E h \in FileHandlers(calls[t].logging_config) \ calls[t].todo :
         /\ DirNameOf(calls[t].logging_config.handlers[h]) \in dirs
         /\ DirNameOf(calls[t].logging_config.handlers[h])
              \notin Prefixes(calls[t].dir_name)
    /\ active = InitialActive

C10_DirExistsAfterStep ==
  \A t \in Threads :
    calls[t].fn = "configure_logging" /\ Loaded(calls[t])
      => /\ DirsOf(calls[t].logging_config,
                   FileHandlers(calls[t].logging_config) \ calls[t].todo)
              \subseteq dirs
         /\ calls[t].error = "FileExistsError" => calls[t].dir_name \in dirs

C10_NoCreateWhenSeen ==
  \A t \in Threads : calls[t].pc = "makedirs" => ~ calls[t].exists

C10_ErrorSurfaced ==
  \A t \in Threads :
    (calls[t].error = "" /\ calls'[t].error = "FileExistsError")
      => /\ calls[t].pc = "makedirs"
         /\ calls'[t].pc = "raised"
         /\ active' = active
         /\ dirs' = dirs

\* C10: the directory of a handler exists once a call has finished its
\* directory step for it, by creating it, by seeing it or by the
\* filesystem error of losing the race; a call goes to create a directory
\* only when its existence check saw none; and the filesystem error ends
\* the call with nothing applied.
C10_Theorem ==
  /\ [] (C10_DirExistsAfterStep /\ C10_NoCreateWhenSeen)
  /\ [][C10_ErrorSurfaced]_vars

\* two calls saw the same directory absent; one created it and went on,
\* the other raised the filesystem error
C10_Witness ==
  \E t \in Threads, u \in Threads :
    /\ t # u
    /\ calls[t].fn = "configure_logging" /\ calls[u].fn = "configure_logging"
    /\ calls[t].pc = "raised" /\ calls[t].error = "FileExistsError"
    /\ ~ calls[t].exists /\ ~ calls[u].exists
    /\ calls[u].dir_name = calls[t].dir_name
    /\ calls[u].pc \in {"loop", "apply", "done"}
    /\ calls[u].cur \notin calls[u].todo

====
